---- MODULE Spec2Model ----
(***************************************************************************)
(* Lead Scoring Engine: the circuit breaker of NotionScoringClient, the    *)
(* retried ledger operations that run on worker threads, the single-entity *)
(* flow of ScoringOrchestrator with its 5-second budget, the batch loop,   *)
(* the auto-trigger entry point, the enrichment pipeline's scoring         *)
(* callback loop, and the score calculation itself: ScoringInput           *)
(* validation, LeadScorer.calculate_score and PracticeClassifier.          *)
(***************************************************************************)
EXTENDS Integers, Sequences, FiniteSets, TLC

(* ---- bounds of the model ---- *)
MaxBatch == 2
MaxTime == 9
MaxClientTime == 62
MaxResults == 3
MaxServices == 2

(* ---- program constants ---- *)
CIRCUIT_BREAKER_THRESHOLD == 5
CIRCUIT_BREAKER_COOLDOWN == 60
SCORING_TIMEOUT_SECONDS == 5
STOP_AFTER_ATTEMPT == 3
WAIT_MIN == 4
WAIT_MAX == 60
VET_COUNT_MAX == 50

VARIABLES
    now,                      \* time.time(), whole seconds since construction
    circuit_breaker,          \* the three circuit-breaker attributes of the client
    thr,                      \* worker threads: one slot per entity position
    mode,                     \* which entry point drives the client
    n,                        \* len(practice_ids); the ids are 1..n
    continue_on_error,
    idx,                      \* position of the batch / caller loop
    flow,                     \* where score_practice_async is
    start_time,               \* when asyncio.timeout was entered
    outcome,                  \* how each entity's flow ended
    succeeded, failed, timeout_count, circuit_breaker_blocked,
    results, errors,
    batch_done,
    attempts,                 \* entities whose flow was started, in start order
    trace,                    \* per entity: the ledger/compute events that happened
    trigger_return,           \* what trigger_scoring_after_enrichment did per entity
    enrichment_results,       \* EnrichmentResult.status per practice of a run
    trig_pos,                 \* position of the _trigger_scoring loop
    callback_calls,           \* practices the scoring callback was invoked for
    callback_raised,          \* practices whose callback raised
    page,                     \* the field values the ledger holds for one practice
    score_pc,                 \* how far the scoring of that practice has come
    scoring_input,            \* the ScoringInput built from the page
    scoring_result,           \* what calculate_score returned or raised
    scoring_fields            \* the scoring fields written back to the page

vars == <<now, circuit_breaker, thr, mode, n, continue_on_error, idx, flow,
          start_time, outcome, succeeded, failed, timeout_count,
          circuit_breaker_blocked, results, errors, batch_done, attempts,
          trace, trigger_return, enrichment_results, trig_pos, callback_calls,
          callback_raised, page, score_pc, scoring_input, scoring_result,
          scoring_fields>>

NoneVal == -1

\* a variable that holds no object yet
NoRecord == [kind |-> "none"]

Slots == 1..MaxBatch

Max(a, b) == IF a >= b THEN a ELSE b
Min(a, b) == IF a <= b THEN a ELSE b

(* ======================================================================= *)
(* Circuit breaker                                                         *)
(* ======================================================================= *)

ClosedBreaker == [failures |-> 0, open |-> FALSE, opened_at |-> NoneVal]

CooldownElapsed_gt(elapsed) == elapsed > CIRCUIT_BREAKER_COOLDOWN

CooldownElapsed_early(elapsed) == elapsed >= CIRCUIT_BREAKER_COOLDOWN - 1

CooldownElapsed(elapsed) == elapsed >= CIRCUIT_BREAKER_COOLDOWN

\* _check_circuit_breaker: [raise |-> CircuitBreakerError raised, cb |-> state after]
check_circuit_breaker(cb, t) ==
    IF ~cb.open
    THEN [raise |-> FALSE, cb |-> cb]
    ELSE IF cb.opened_at # NoneVal /\ CooldownElapsed(t - cb.opened_at)
         THEN [raise |-> FALSE, cb |-> ClosedBreaker]
         ELSE [raise |-> TRUE, cb |-> cb]

record_success(cb) == ClosedBreaker

ThresholdReached_gt(f) == f > CIRCUIT_BREAKER_THRESHOLD

ThresholdReached(f) == f >= CIRCUIT_BREAKER_THRESHOLD

record_failure(cb, t) ==
    LET f == cb.failures + 1 IN
    IF ThresholdReached(f)
    THEN [failures |-> f, open |-> TRUE, opened_at |-> t]
    ELSE [cb EXCEPT !.failures = f]

reset_circuit_breaker_flag_only(cb) == [cb EXCEPT !.open = FALSE, !.opened_at = NoneVal]

reset_circuit_breaker(cb) == ClosedBreaker

(* ======================================================================= *)
(* Retried ledger operations, one step at a time on a worker thread        *)
(* ======================================================================= *)

Ops == {"fetch_scoring_input", "fetch_google_maps_data",
        "fetch_enrichment_data", "update_scoring_fields"}

IdleThread == [op |-> "none", pc |-> "done", call |-> "none", attempt |-> 0,
               wake |-> 0, exc |-> "none", vet |-> NoneVal,
               probe |-> NoneVal]

\* the thread state on entry of a client method
StartThread(op) ==
    IF op = "fetch_scoring_input"
    THEN [IdleThread EXCEPT !.op = op, !.pc = "outer_check"]
    ELSE [IdleThread EXCEPT !.op = op, !.pc = "check", !.call = op, !.attempt = 1]

\* tenacity wait_exponential(multiplier=1, min=4, max=60) after attempt k
RECURSIVE Pow2(_)
Pow2(k) == IF k <= 0 THEN 1 ELSE 2 * Pow2(k - 1)

wait_exponential(attempt) == Max(Max(0, WAIT_MIN), Min(Pow2(attempt - 1), WAIT_MAX))

\* values the ledger may hold in the Vet Count field
VetCountSamples == {NoneVal, 5, 51}

validate_vet_count_lower(v) == v = NoneVal \/ v >= 0

\* ScoringInput.validate_vet_count / Field(ge=0, le=50)
validate_vet_count(v) == v = NoneVal \/ (v >= 0 /\ v <= VET_COUNT_MAX)

Running(t) == thr[t].pc # "done"

Events(t, ev) == [trace EXCEPT ![t] = @ \cup ev]

\* a worker that finishes after its coroutine was cancelled has no reader:
\* its return value or exception is dropped
Finish(t, rec) ==
    IF rec.pc = "done" /\ outcome[t] # "pending" THEN IdleThread ELSE rec

Put(t, rec) == [thr EXCEPT ![t] = Finish(t, rec)]

\* seconds since the breaker opened when this check found the cooldown over
ProbeAt(t, r) ==
    IF circuit_breaker.open /\ ~r.raise THEN now - circuit_breaker.opened_at
    ELSE thr[t].probe

\* fetch_scoring_input line 296: the check outside the try block
OuterCheck(t) ==
    /\ thr[t].pc = "outer_check"
    /\ LET r == check_circuit_breaker(circuit_breaker, now) IN
         /\ circuit_breaker' = r.cb
         /\ IF r.raise
            THEN /\ thr' = Put(t, [thr[t] EXCEPT !.pc = "done", !.exc = "CircuitBreakerError"])
                 /\ trace' = Events(t, {"fetch_failed"})
            ELSE /\ thr' = Put(t, [thr[t] EXCEPT !.pc = "check",
                                       !.call = "fetch_google_maps_data",
                                       !.attempt = 1,
                                       !.probe = ProbeAt(t, r)])
                 /\ UNCHANGED trace

\* the check that opens every attempt of a retried operation
Check(t) ==
    /\ thr[t].pc = "check"
    /\ LET r == check_circuit_breaker(circuit_breaker, now) IN
         /\ circuit_breaker' = r.cb
         /\ IF r.raise
            THEN IF thr[t].op = "fetch_scoring_input"
                 THEN /\ thr' = Put(t, [thr[t] EXCEPT !.pc = "outer_failure",
                                            !.exc = "CircuitBreakerError"])
                      /\ UNCHANGED trace
                 ELSE /\ thr' = Put(t, [thr[t] EXCEPT !.pc = "done",
                                            !.exc = "CircuitBreakerError"])
                      /\ UNCHANGED trace
            ELSE /\ thr' = Put(t, [thr[t] EXCEPT !.pc = "request",
                                       !.probe = ProbeAt(t, r)])
                 /\ UNCHANGED trace

ReadEvent(call) ==
    IF call = "fetch_google_maps_data" THEN "read_gm"
    ELSE IF call = "fetch_enrichment_data" THEN "read_en" ELSE "written"

\* client.pages.retrieve / client.pages.update answers
RequestOk(t) ==
    /\ thr[t].pc = "request"
    /\ \/ /\ thr[t].call = "fetch_enrichment_data"
          /\ \E v \in VetCountSamples :
                thr' = Put(t, [thr[t] EXCEPT !.pc = "record_success", !.vet = v])
       \/ /\ thr[t].call # "fetch_enrichment_data"
          /\ thr' = Put(t, [thr[t] EXCEPT !.pc = "record_success"])
    /\ trace' = Events(t, IF thr[t].call = "update_scoring_fields"
                          THEN {"write_req", "written"}
                          ELSE {ReadEvent(thr[t].call)})
    /\ UNCHANGED circuit_breaker

\* the request fails with APIResponseError
RequestApiError(t) ==
    /\ thr[t].pc = "request"
    /\ thr' = Put(t, [thr[t] EXCEPT !.pc = "record_failure"])
    /\ trace' = Events(t, IF thr[t].call = "update_scoring_fields"
                          THEN {"write_req"} ELSE {})
    /\ UNCHANGED circuit_breaker

\* the request fails with an exception that is not an APIResponseError
RequestOtherError(t) ==
    /\ thr[t].pc = "request"
    /\ IF thr[t].op = "fetch_scoring_input"
       THEN thr' = Put(t, [thr[t] EXCEPT !.pc = "outer_failure", !.exc = "OtherError"])
       ELSE thr' = Put(t, [thr[t] EXCEPT !.pc = "done", !.exc = "OtherError"])
    /\ trace' = Events(t, IF thr[t].call = "update_scoring_fields"
                          THEN {"write_req"} ELSE {})
    /\ UNCHANGED circuit_breaker

\* time.sleep(rate_limit_delay); self._record_success(); return
RecordSuccess(t) ==
    /\ thr[t].pc = "record_success"
    /\ circuit_breaker' = record_success(circuit_breaker)
    /\ IF thr[t].op = "fetch_scoring_input"
       THEN IF thr[t].call = "fetch_google_maps_data"
            THEN thr' = Put(t, [thr[t] EXCEPT !.pc = "check",
                                    !.call = "fetch_enrichment_data",
                                    !.attempt = 1])
            ELSE thr' = Put(t, [thr[t] EXCEPT !.pc = "construct"])
       ELSE thr' = Put(t, [thr[t] EXCEPT !.pc = "done"])
    /\ UNCHANGED trace

\* except APIResponseError: self._record_failure(); raise -- then tenacity
RecordFailure(t) ==
    /\ thr[t].pc = "record_failure"
    /\ circuit_breaker' = record_failure(circuit_breaker, now)
    /\ IF thr[t].attempt < STOP_AFTER_ATTEMPT
       THEN thr' = Put(t, [thr[t] EXCEPT !.pc = "retry_wait",
                                  !.wake = now + wait_exponential(thr[t].attempt)])
       ELSE IF thr[t].op = "fetch_scoring_input"
            THEN thr' = Put(t, [thr[t] EXCEPT !.pc = "outer_failure",
                                       !.exc = "APIResponseError"])
            ELSE thr' = Put(t, [thr[t] EXCEPT !.pc = "done", !.exc = "APIResponseError"])
    /\ UNCHANGED trace

\* tenacity's sleep is over, next attempt
Retry(t) ==
    /\ thr[t].pc = "retry_wait"
    /\ now >= thr[t].wake
    /\ thr' = Put(t, [thr[t] EXCEPT !.pc = "check", !.attempt = @ + 1, !.wake = 0])
    /\ UNCHANGED <<circuit_breaker, trace>>

\* ScoringInput(...) then self._record_success(), or the except branch
Construct(t) ==
    /\ thr[t].pc = "construct"
    /\ IF validate_vet_count(thr[t].vet)
       THEN /\ circuit_breaker' = record_success(circuit_breaker)
            /\ thr' = Put(t, [thr[t] EXCEPT !.pc = "done"])
            /\ UNCHANGED trace
       ELSE /\ circuit_breaker' = record_failure(circuit_breaker, now)
            /\ thr' = Put(t, [thr[t] EXCEPT !.pc = "done", !.exc = "ValidationError"])
            /\ trace' = Events(t, {"fetch_failed"})

\* fetch_scoring_input: except Exception: self._record_failure(); raise
OuterFailure(t) ==
    /\ thr[t].pc = "outer_failure"
    /\ circuit_breaker' = record_failure(circuit_breaker, now)
    /\ thr' = Put(t, [thr[t] EXCEPT !.pc = "done"])
    /\ trace' = Events(t, {"fetch_failed"})

ThreadStep(t) ==
    \/ OuterCheck(t)
    \/ Check(t)
    \/ RequestOk(t)
    \/ RequestApiError(t)
    \/ RequestOtherError(t)
    \/ RecordSuccess(t)
    \/ RecordFailure(t)
    \/ Retry(t)
    \/ Construct(t)
    \/ OuterFailure(t)

\* a thread is blocked in a ledger request or in tenacity's sleep
Waiting(t) ==
    \/ thr[t].pc = "request"
    \/ thr[t].pc = "retry_wait" /\ now < thr[t].wake

OrchVars == <<mode, n, continue_on_error, idx, flow, start_time, outcome,
              succeeded, failed, timeout_count, circuit_breaker_blocked,
              results, errors, batch_done, attempts, trigger_return>>

EnrichVars == <<enrichment_results, trig_pos, callback_calls, callback_raised>>

ScoreVars == <<page, score_pc, scoring_input, scoring_result, scoring_fields>>

\* no score calculation is followed in this run
ScoreIdle ==
    /\ page = NoRecord
    /\ score_pc = "idle"
    /\ scoring_input = NoRecord
    /\ scoring_result = NoRecord
    /\ scoring_fields = NoRecord

(* ======================================================================= *)
(* The client used directly by one sequential caller                       *)
(* ======================================================================= *)

InitCommon ==
    /\ now = 0
    /\ circuit_breaker = ClosedBreaker
    /\ thr = [t \in Slots |-> IdleThread]
    /\ idx = 0
    /\ flow = "none"
    /\ start_time = 0
    /\ outcome = [t \in Slots |-> "pending"]
    /\ succeeded = 0
    /\ failed = 0
    /\ timeout_count = 0
    /\ circuit_breaker_blocked = 0
    /\ results = <<>>
    /\ errors = <<>>
    /\ batch_done = FALSE
    /\ attempts = <<>>
    /\ trace = [t \in Slots |-> {}]
    /\ trigger_return = [t \in Slots |-> "pending"]
    /\ trig_pos = 0
    /\ callback_calls = <<>>
    /\ callback_raised = {}

InitClient ==
    /\ InitCommon
    /\ ScoreIdle
    /\ mode = "client"
    /\ n = 0
    /\ continue_on_error = TRUE
    /\ enrichment_results = <<>>

\* the caller invokes one of the client's public methods
ClientCall ==
    /\ mode = "client"
    /\ ~Running(1)
    /\ \E op \in Ops : thr' = [thr EXCEPT ![1] = StartThread(op)]
    /\ trace' = [trace EXCEPT ![1] = {}]
    /\ UNCHANGED <<now, circuit_breaker, OrchVars, EnrichVars, ScoreVars>>

\* score_leads.py --reset-circuit-breaker
ClientReset ==
    /\ mode = "client"
    /\ ~Running(1)
    /\ circuit_breaker' = reset_circuit_breaker(circuit_breaker)
    /\ UNCHANGED <<now, thr, trace, OrchVars, EnrichVars, ScoreVars>>

ClientThread ==
    /\ mode = "client"
    /\ ThreadStep(1)
    /\ UNCHANGED <<now, OrchVars, EnrichVars, ScoreVars>>

\* a second passes between calls or while tenacity sleeps
ClientTick ==
    /\ mode = "client"
    /\ now < MaxClientTime
    /\ ~Running(1) \/ (thr[1].pc = "retry_wait" /\ now < thr[1].wake)
    /\ now' = now + 1
    /\ UNCHANGED <<circuit_breaker, thr, trace, OrchVars, EnrichVars, ScoreVars>>

NextClient == ClientCall \/ ClientReset \/ ClientThread \/ ClientTick

SpecClient == InitClient /\ [][NextClient]_vars

(* ======================================================================= *)
(* ScoringOrchestrator: single-entity flow and batch loop                  *)
(* ======================================================================= *)

InFlight == flow \in {"fetch", "calc", "update"}

\* asyncio.timeout(SCORING_TIMEOUT_SECONDS) has expired
DeadlineExpired == now - start_time >= SCORING_TIMEOUT_SECONDS

\* which except clause of score_practice_async / score_batch_async takes exc
ErrorKind(exc) ==
    IF exc = "CircuitBreakerError" THEN "circuit_breaker" ELSE "general"

BreakAfter_flag(kind, coe) == kind # "succeeded" /\ ~coe

BreakAfter_timeout(kind, coe) ==
    \/ kind \in {"circuit_breaker", "timeout"}
    \/ kind = "general" /\ ~coe

\* the break statements of the batch loop
BreakAfter(kind, coe) ==
    \/ kind = "circuit_breaker"
    \/ kind \in {"timeout", "general"} /\ ~coe

BatchHandle_timeout_uncounted(kind) ==
    /\ flow' = "none"
    /\ succeeded' = IF kind = "succeeded" THEN succeeded + 1 ELSE succeeded
    /\ results' = IF kind = "succeeded" THEN Append(results, idx) ELSE results
    /\ failed' = IF kind \notin {"succeeded", "timeout"} THEN failed + 1 ELSE failed
    /\ timeout_count' = IF kind = "timeout" THEN timeout_count + 1 ELSE timeout_count
    /\ circuit_breaker_blocked' =
          IF kind = "circuit_breaker" THEN circuit_breaker_blocked + 1
          ELSE circuit_breaker_blocked
    /\ errors' = IF kind # "succeeded"
                 THEN Append(errors, [practice_id |-> idx, error_type |-> kind])
                 ELSE errors
    /\ IF BreakAfter(kind, continue_on_error) \/ idx = n
       THEN batch_done' = TRUE /\ idx' = idx
       ELSE batch_done' = FALSE /\ idx' = idx + 1
    /\ UNCHANGED trigger_return

\* one iteration of the batch loop ends: counters, lists and the break rules
BatchHandle(kind) ==
    /\ flow' = "none"
    /\ succeeded' = IF kind = "succeeded" THEN succeeded + 1 ELSE succeeded
    /\ results' = IF kind = "succeeded" THEN Append(results, idx) ELSE results
    /\ failed' = IF kind # "succeeded" THEN failed + 1 ELSE failed
    /\ timeout_count' = IF kind = "timeout" THEN timeout_count + 1 ELSE timeout_count
    /\ circuit_breaker_blocked' =
          IF kind = "circuit_breaker" THEN circuit_breaker_blocked + 1
          ELSE circuit_breaker_blocked
    /\ errors' = IF kind # "succeeded"
                 THEN Append(errors, [practice_id |-> idx, error_type |-> kind])
                 ELSE errors
    /\ IF BreakAfter(kind, continue_on_error) \/ idx = n
       THEN batch_done' = TRUE /\ idx' = idx
       ELSE batch_done' = FALSE /\ idx' = idx + 1
    /\ UNCHANGED trigger_return

\* score_practice raised or returned inside asyncio.run: the loop is closed
\* (and its executor joined) before trigger_scoring_after_enrichment goes on
TriggerPending ==
    /\ flow' = "shutdown"
    /\ UNCHANGED <<succeeded, failed, timeout_count, circuit_breaker_blocked,
                   results, errors, batch_done, idx, trigger_return>>

\* score_practice_async leaves with a result or an exception of this kind
EndFlow(kind) ==
    /\ outcome' = [outcome EXCEPT ![idx] = kind]
    /\ thr' = [thr EXCEPT ![idx] = IF Running(idx) THEN @ ELSE IdleThread]
    /\ IF mode = "batch" THEN BatchHandle(kind) ELSE TriggerPending
    /\ UNCHANGED <<mode, n, continue_on_error, start_time, attempts>>

\* the loop takes the next practice_id and score_practice_async starts the fetch
StartFlow ==
    /\ mode \in {"batch", "trigger"}
    /\ ~batch_done
    /\ flow = "none"
    /\ idx <= n
    /\ flow' = "fetch"
    /\ start_time' = now
    /\ attempts' = Append(attempts, idx)
    /\ thr' = [thr EXCEPT ![idx] = StartThread("fetch_scoring_input")]
    /\ UNCHANGED <<now, circuit_breaker, trace, mode, n, continue_on_error, idx,
                   outcome, succeeded, failed, timeout_count,
                   circuit_breaker_blocked, results, errors, batch_done,
                   trigger_return, EnrichVars, ScoreVars>>

FetchSucceeded_always(exc) == TRUE

\* the awaited fetch returned a ScoringInput instead of raising
FetchSucceeded(exc) == exc = "none"

\* await asyncio.to_thread(fetch_scoring_input) returns or raises
FlowFetchDone ==
    /\ flow = "fetch"
    /\ ~Running(idx)
    /\ IF FetchSucceeded(thr[idx].exc)
       THEN /\ flow' = "calc"
            /\ UNCHANGED <<mode, n, continue_on_error, idx, start_time, outcome,
                           succeeded, failed, timeout_count,
                           circuit_breaker_blocked, results, errors, batch_done,
                           attempts, trigger_return, thr>>
       ELSE EndFlow(ErrorKind(thr[idx].exc))
    /\ UNCHANGED <<now, circuit_breaker, trace, EnrichVars, ScoreVars>>

\* LeadScorer._validate_input on the fetched input
validate_input(v) == v = NoneVal \/ (v >= 0 /\ v <= VET_COUNT_MAX)

\* await asyncio.to_thread(calculate_score), then the update is handed to a thread
FlowCalc ==
    /\ flow = "calc"
    /\ IF validate_input(thr[idx].vet)
       THEN /\ flow' = "update"
            /\ thr' = [thr EXCEPT ![idx] = StartThread("update_scoring_fields")]
            /\ trace' = Events(idx, {"calc"})
            /\ UNCHANGED <<mode, n, continue_on_error, idx, start_time, outcome,
                           succeeded, failed, timeout_count,
                           circuit_breaker_blocked, results, errors, batch_done,
                           attempts, trigger_return>>
       ELSE /\ EndFlow("general")
            /\ trace' = Events(idx, {"calc_failed"})
    /\ UNCHANGED <<now, circuit_breaker, EnrichVars, ScoreVars>>

\* await asyncio.to_thread(update_scoring_fields) returns or raises
FlowUpdateDone ==
    /\ flow = "update"
    /\ ~Running(idx)
    /\ IF thr[idx].exc = "none"
       THEN EndFlow("succeeded")
       ELSE EndFlow(ErrorKind(thr[idx].exc))
    /\ UNCHANGED <<now, circuit_breaker, trace, EnrichVars, ScoreVars>>

\* the deadline expires: the awaiting coroutine is cancelled, the worker
\* thread it was waiting for keeps running
FlowTimeout ==
    /\ InFlight
    /\ DeadlineExpired
    /\ EndFlow("timeout")
    /\ UNCHANGED <<now, circuit_breaker, trace, EnrichVars, ScoreVars>>

\* a worker thread (the awaited one or an abandoned one) takes a step
Worker ==
    /\ mode \in {"batch", "trigger"}
    /\ \E t \in Slots : ThreadStep(t)
    /\ UNCHANGED <<now, OrchVars, EnrichVars, ScoreVars>>

\* a second passes while some thread waits for the ledger or sleeps
Tick ==
    /\ mode \in {"batch", "trigger"}
    /\ now < MaxTime
    /\ ~(InFlight /\ DeadlineExpired)
    /\ \E t \in Slots : Waiting(t)
    /\ \A t \in Slots : thr[t].pc = "retry_wait" => now < thr[t].wake
    /\ now' = now + 1
    /\ UNCHANGED <<circuit_breaker, thr, trace, OrchVars, EnrichVars, ScoreVars>>

\* The client outlives a run: the Closed breaker may already have counted
\* consecutive failures (fewer than the threshold) when the run starts.
PriorFailures == {0, CIRCUIT_BREAKER_THRESHOLD - 1}

InitOrchestrator ==
    /\ now = 0
    /\ \E f \in PriorFailures : circuit_breaker = [ClosedBreaker EXCEPT !.failures = f]
    /\ thr = [t \in Slots |-> IdleThread]
    /\ idx = 1
    /\ flow = "none"
    /\ start_time = 0
    /\ outcome = [t \in Slots |-> "pending"]
    /\ succeeded = 0
    /\ failed = 0
    /\ timeout_count = 0
    /\ circuit_breaker_blocked = 0
    /\ results = <<>>
    /\ errors = <<>>
    /\ batch_done = FALSE
    /\ attempts = <<>>
    /\ trace = [t \in Slots |-> {}]
    /\ trigger_return = [t \in Slots |-> "pending"]
    /\ n \in 1..MaxBatch
    /\ enrichment_results = <<>>
    /\ trig_pos = 0
    /\ callback_calls = <<>>
    /\ callback_raised = {}
    /\ ScoreIdle

InitBatch ==
    /\ InitOrchestrator
    /\ mode = "batch"
    /\ continue_on_error \in BOOLEAN

Next ==
    \/ StartFlow
    \/ FlowFetchDone
    \/ FlowCalc
    \/ FlowUpdateDone
    \/ FlowTimeout
    \/ Worker
    \/ Tick

Spec == InitBatch /\ [][Next]_vars

(* ======================================================================= *)
(* trigger_scoring_after_enrichment, called for one practice after another *)
(* ======================================================================= *)

TriggerResult_reraise_all(kind) ==
    IF kind = "succeeded" THEN "result"
    ELSE IF kind \in {"circuit_breaker", "timeout"} THEN "CircuitBreakerError"
    ELSE "None"

\* what the try/except of trigger_scoring_after_enrichment makes of the run
TriggerResult(kind) ==
    IF kind = "succeeded" THEN "result"
    ELSE IF kind = "circuit_breaker" THEN "CircuitBreakerError"
    ELSE "None"

\* asyncio.run has closed the loop; the except clauses decide
TriggerReturn ==
    /\ mode = "trigger"
    /\ flow = "shutdown"
    /\ ~Running(idx)
    /\ trigger_return' = [trigger_return EXCEPT ![idx] = TriggerResult(outcome[idx])]
    /\ flow' = "none"
    /\ IF idx = n
       THEN batch_done' = TRUE /\ idx' = idx
       ELSE batch_done' = FALSE /\ idx' = idx + 1
    /\ UNCHANGED <<now, circuit_breaker, thr, trace, mode, n, continue_on_error,
                   start_time, outcome, succeeded, failed, timeout_count,
                   circuit_breaker_blocked, results, errors, attempts, EnrichVars, ScoreVars>>

InitTrigger ==
    /\ InitOrchestrator
    /\ mode = "trigger"
    /\ continue_on_error = TRUE

NextTrigger ==
    \/ StartFlow
    \/ FlowFetchDone
    \/ FlowCalc
    \/ FlowUpdateDone
    \/ FlowTimeout
    \/ TriggerReturn
    \/ Worker
    \/ Tick

SpecTrigger == InitTrigger /\ [][NextTrigger]_vars

(* ======================================================================= *)
(* EnrichmentOrchestrator._trigger_scoring                                 *)
(* ======================================================================= *)

Statuses == {"success", "scrape_failed", "llm_failed", "notion_failed"}

\* successful = [r for r in results if r.status == "success"], as positions
RECURSIVE SuccessfulFrom(_, _)
SuccessfulFrom(rs, i) ==
    IF i > Len(rs) THEN <<>>
    ELSE IF rs[i] = "success" THEN <<i>> \o SuccessfulFrom(rs, i + 1)
    ELSE SuccessfulFrom(rs, i + 1)

Successful(rs) == SuccessfulFrom(rs, 1)

\* the loop body never assigns to the result it scores
ResultsAfterCallback(rs, i, raised) == rs

NextPosition_stops(pos, raised, len) == IF raised THEN len + 1 ELSE pos + 1

\* the for loop goes on to the next result whether or not the callback raised
NextPosition(pos, raised, len) == pos + 1

InitEnrich ==
    /\ InitCommon
    /\ ScoreIdle
    /\ mode = "enrich"
    /\ n = 0
    /\ continue_on_error = TRUE
    /\ \E len \in 1..MaxResults : enrichment_results \in [1..len -> Statuses]

\* one iteration: self.scoring_callback(...) returns or raises an Exception
ScoringCallback(raised) ==
    /\ mode = "enrich"
    /\ LET succ == Successful(enrichment_results) IN
         /\ trig_pos + 1 <= Len(succ)
         /\ LET i == succ[trig_pos + 1] IN
              /\ callback_calls' = Append(callback_calls, i)
              /\ callback_raised' = IF raised THEN callback_raised \cup {i}
                                    ELSE callback_raised
              /\ enrichment_results' = ResultsAfterCallback(enrichment_results, i, raised)
              /\ trig_pos' = NextPosition(trig_pos + 1, raised, Len(succ)) - 1
    /\ UNCHANGED <<now, circuit_breaker, thr, trace, OrchVars, ScoreVars>>

NextEnrich == \E raised \in BOOLEAN : ScoringCallback(raised)

SpecEnrich == InitEnrich /\ [][NextEnrich]_vars

(* ======================================================================= *)
(* Properties of the circuit breaker                                       *)
(* ======================================================================= *)

Moved(t) == thr'[t] # thr[t]

\* thread t runs _record_failure in this step
FailureStep(t) ==
    /\ Moved(t)
    /\ \/ thr[t].pc \in {"record_failure", "outer_failure"}
       \/ thr[t].pc = "construct" /\ ~validate_vet_count(thr[t].vet)

\* thread t runs _record_success in this step
SuccessStep(t) ==
    /\ Moved(t)
    /\ \/ thr[t].pc = "record_success"
       \/ thr[t].pc = "construct" /\ validate_vet_count(thr[t].vet)

\* thread t runs _check_circuit_breaker in this step
CheckStep(t) == Moved(t) /\ thr[t].pc \in {"outer_check", "check"}

Rejected(t) ==
    /\ thr'[t].exc = "CircuitBreakerError"
    /\ thr'[t].pc \in {"done", "outer_failure"}

Admitted(t) ==
    /\ thr'[t].exc = "none"
    /\ thr'[t].pc \in {"check", "request"}

\* C1: from a Closed breaker the breaker opens exactly when the 5th consecutive
\* failure is recorded: with fewer than 5 failures counted it is Closed and a
\* check admits the call, the failure that takes the counter from 4 to 5 sets
\* the open flag and the open timestamp, and a recorded success puts the
\* counter back to 0 and clears the open flag.
C1_OpensOnFifthFailure ==
    [][\A t \in Slots :
        /\ circuit_breaker.failures < CIRCUIT_BREAKER_THRESHOLD => ~circuit_breaker.open
        /\ FailureStep(t) =>
              /\ circuit_breaker'.failures = circuit_breaker.failures + 1
              /\ circuit_breaker'.failures < CIRCUIT_BREAKER_THRESHOLD
                    => ~circuit_breaker'.open
              /\ circuit_breaker.failures = CIRCUIT_BREAKER_THRESHOLD - 1
                    => /\ circuit_breaker'.open
                       /\ circuit_breaker'.opened_at = now
        /\ SuccessStep(t) =>
              /\ circuit_breaker'.failures = 0
              /\ ~circuit_breaker'.open
        /\ (CheckStep(t) /\ circuit_breaker.failures < CIRCUIT_BREAKER_THRESHOLD)
              => Admitted(t)
      ]_vars

C1_Witness ==
    /\ circuit_breaker.open
    /\ circuit_breaker.failures = CIRCUIT_BREAKER_THRESHOLD
    /\ circuit_breaker.opened_at = now
    /\ thr[1].pc \in {"retry_wait", "done", "outer_failure"}

\* C2: a ledger call whose check runs while the breaker is Open and fewer than
\* 60 seconds have passed since it opened is rejected with a breaker-open
\* error, and a rejected call sends no request to the ledger.
C2_OpenRejectsWithoutRequest ==
    [][\A t \in Slots :
        /\ ( /\ CheckStep(t)
             /\ circuit_breaker.open
             /\ now - circuit_breaker.opened_at < CIRCUIT_BREAKER_COOLDOWN )
              => Rejected(t)
        /\ (thr[t].exc = "CircuitBreakerError" /\ Running(t))
              => (thr[t].pc = "outer_failure" /\ (Moved(t) => thr'[t].pc = "done"))
      ]_vars

C2_Witness ==
    /\ thr[1].op = "update_scoring_fields"
    /\ thr[1].pc = "done"
    /\ thr[1].exc = "CircuitBreakerError"
    /\ thr[1].attempt = 1
    /\ circuit_breaker.open
    /\ now - circuit_breaker.opened_at = CIRCUIT_BREAKER_COOLDOWN - 1

\* C3: a check on an Open breaker admits the call if and only if at least 60
\* seconds have passed since the open timestamp (59 rejects, 60 admits), and
\* admitting it leaves the breaker Closed with counter 0 and no timestamp.
C3_ProbeExactlyAtCooldown ==
    [][\A t \in Slots :
        (CheckStep(t) /\ circuit_breaker.open) =>
            /\ Admitted(t) <=> (now - circuit_breaker.opened_at >= CIRCUIT_BREAKER_COOLDOWN)
            /\ Rejected(t) <=> (now - circuit_breaker.opened_at < CIRCUIT_BREAKER_COOLDOWN)
            /\ Admitted(t) =>
                  /\ ~circuit_breaker'.open
                  /\ circuit_breaker'.failures = 0
                  /\ circuit_breaker'.opened_at = NoneVal
      ]_vars

C3_Witness ==
    /\ thr[1].probe = CIRCUIT_BREAKER_COOLDOWN
    /\ thr[1].pc = "request"
    /\ circuit_breaker = ClosedBreaker

\* C4 (as claimed): when the call admitted as a probe after the cooldown
\* records a failure, the breaker is Open again right after that failure and
\* the open timestamp is the time of that failure.
C4_ProbeFailureReopens ==
    [][\A t \in Slots :
        (FailureStep(t) /\ thr[t].probe # NoneVal) =>
            /\ circuit_breaker'.open
            /\ circuit_breaker'.opened_at = now
      ]_vars

(* ======================================================================= *)
(* Properties of the orchestrator                                          *)
(* ======================================================================= *)

\* C5 (as claimed): when an entity's flow ended with the timeout error, no
\* scoring write of that attempt has reached the ledger, at the time of the
\* timeout or at any later time.
C5_NoWriteOnTimeout ==
    \A i \in Slots : outcome[i] = "timeout" => "written" \notin trace[i]

\* C6: in one entity's flow both ledger reads are complete before the score is
\* calculated, the calculation is complete before a write request is issued,
\* and no write request is issued when the fetch or the calculation failed.
C6_FetchComputePersist ==
    \A i \in Slots :
        /\ "calc" \in trace[i] =>
              /\ {"read_gm", "read_en"} \subseteq trace[i]
              /\ "fetch_failed" \notin trace[i]
        /\ "write_req" \in trace[i] => "calc" \in trace[i]
        /\ ("fetch_failed" \in trace[i] \/ "calc_failed" \in trace[i])
              => "write_req" \notin trace[i]

C6_Witness ==
    /\ outcome[1] = "general"
    /\ "fetch_failed" \in trace[1]
    /\ n >= 2
    /\ outcome[2] = "succeeded"
    /\ "written" \in trace[2]

\* C7: when an entity's flow in the batch fails with the breaker-open error
\* the batch stops there: no later entity is attempted, with continue_on_error
\* true or false, and exactly one breaker-blocked item is counted.
C7_BreakerOpenAbortsBatch ==
    \A i \in 1..n :
        outcome[i] = "circuit_breaker" =>
            /\ batch_done
            /\ flow = "none"
            /\ circuit_breaker_blocked = 1
            /\ Len(attempts) = i
            /\ \A j \in (i + 1)..n :
                  /\ outcome[j] = "pending"
                  /\ trace[j] = {}
                  /\ thr[j] = IdleThread

C7_Witness ==
    /\ continue_on_error
    /\ n = 2
    /\ outcome[1] = "circuit_breaker"
    /\ batch_done
    /\ circuit_breaker_blocked = 1

ErrorsFor(i) == {k \in 1..Len(errors) : errors[k].practice_id = i}

\* C8: with continue_on_error set, a timeout or any other non-breaker failure
\* does not stop the batch: the entities are attempted once each in list
\* order, all of them unless a breaker-open error occurs, and each failure is
\* recorded as exactly one per-item error.
C8_ContinueOnError ==
    continue_on_error =>
        /\ \A k \in 1..Len(attempts) : attempts[k] = k
        /\ Len(attempts) <= n
        /\ batch_done =>
              \/ Len(attempts) = n
              \/ \E i \in 1..n : outcome[i] = "circuit_breaker"
        /\ (~batch_done /\ flow = "none") => Len(attempts) = idx - 1
        /\ Len(errors) = failed
        /\ \A i \in 1..n :
              IF outcome[i] \in {"timeout", "general", "circuit_breaker"}
              THEN /\ Cardinality(ErrorsFor(i)) = 1
                   /\ \A k \in ErrorsFor(i) : errors[k].error_type = outcome[i]
              ELSE ErrorsFor(i) = {}

C8_Witness ==
    /\ continue_on_error
    /\ batch_done
    /\ n = 2
    /\ outcome[1] = "timeout"
    /\ outcome[2] = "general"
    /\ attempts = <<1, 2>>
    /\ Len(errors) = 2

\* C9 (as claimed): trigger_scoring_after_enrichment never raises, whatever
\* way the triggered run fails.
C9_TriggerNeverRaises ==
    \A i \in Slots : trigger_return[i] # "CircuitBreakerError"

\* C9 (amended): trigger_scoring_after_enrichment raises only the breaker-open
\* error of the triggered run, which it re-raises; after a timeout or any
\* other failure it returns None, and it returns the result of a run that
\* succeeded.
C9_TriggerRaisesOnlyBreakerOpen ==
    \A i \in Slots :
        /\ trigger_return[i] = "CircuitBreakerError" => outcome[i] = "circuit_breaker"
        /\ trigger_return[i] = "None" => outcome[i] \in {"timeout", "general"}
        /\ trigger_return[i] = "result" =>
              (outcome[i] = "succeeded" /\ "written" \in trace[i])
        /\ trigger_return[i] = "pending" => (i >= idx \/ outcome[i] = "pending")

C9_Witness ==
    /\ n = 2
    /\ trigger_return[1] = "None"
    /\ outcome[1] = "timeout"
    /\ trigger_return[2] = "CircuitBreakerError"

\* C10: when the scoring callback raises for one practice, that practice's
\* enrichment result is still "success" and no result of the run is changed,
\* and the callback is invoked for every successfully enriched practice of
\* the run, in order.
C10_CallbackFailureIsolated ==
    /\ [](/\ callback_calls = SubSeq(Successful(enrichment_results), 1, trig_pos)
          /\ trig_pos <= Len(Successful(enrichment_results))
          /\ \A i \in callback_raised : enrichment_results[i] = "success")
    /\ [][enrichment_results' = enrichment_results]_vars

C10_Witness ==
    /\ Len(enrichment_results) = 3
    /\ trig_pos = Len(Successful(enrichment_results))
    /\ callback_raised = {1}
    /\ callback_calls = <<1, 3>>

\* thread t leaves a ledger operation with a failure that is not the breaker's
\* own rejection
OperationFailed(t) ==
    /\ Moved(t)
    /\ thr'[t].pc = "done"
    /\ thr'[t].exc \notin {"none", "CircuitBreakerError"}

\* C11 (as claimed): every ledger operation that fails, whatever the cause of
\* the failure and whichever operation it is, has the failure counted: the
\* step in which the operation gives up increments the breaker's failure
\* counter.
C11_EveryFailureCounted ==
    [][\A t \in Slots :
        OperationFailed(t) =>
            circuit_breaker'.failures = circuit_breaker.failures + 1
      ]_vars

(* ======================================================================= *)
(* Score calculation: ScoringInput, LeadScorer, PracticeClassifier         *)
(* ======================================================================= *)

\* Ratings are held in tenths of a star (45 is 4.5): every threshold and
\* every limit of the source is a whole number of tenths.
RATING_MAX == 50
RATING_HIGH_THRESHOLD == 45
RATING_MEDIUM_THRESHOLD == 40
RATING_LOW_THRESHOLD == 35
RATING_HIGH_SCORE == 10
RATING_MEDIUM_SCORE == 6
RATING_LOW_SCORE == 3
WEBSITE_SCORE == 6
BASELINE_MULTIPLE_LOCATIONS_SCORE == 4

SWEET_SPOT_MIN == 3
SWEET_SPOT_MAX == 8
SWEET_SPOT_BASE_SCORE == 25
NEAR_SWEET_SPOT_SCORE == 15
SOLO_OR_CORPORATE_SCORE == 5
EMERGENCY_BONUS == 15

REVIEW_HIGH_THRESHOLD == 100
REVIEW_HIGH_SCORE == 20
REVIEW_MEDIUM_THRESHOLD == 50
REVIEW_MEDIUM_SCORE == 12
REVIEW_LOW_THRESHOLD == 20
REVIEW_LOW_SCORE == 5
MULTIPLE_LOCATIONS_BONUS == 10
HIGH_VALUE_SERVICES_BONUS == 10

ONLINE_BOOKING_SCORE == 10
PORTAL_OR_TELEMEDICINE_SCORE == 5

DECISION_MAKER_FULL_SCORE == 10
DECISION_MAKER_PARTIAL_SCORE == 5

MAX_PRACTICE_SIZE == 40
MAX_CALL_VOLUME == 40
MAX_TECHNOLOGY == 20
MAX_BASELINE == 20
MAX_DECISION_MAKER == 10

TOTAL_BEFORE_MAX == 130
LEAD_SCORE_MAX == 120

SOLO_MAX == 1
SMALL_MAX == 2
LARGE_MIN == 9
LARGE_MAX == 19

HOT_THRESHOLD == 80
WARM_THRESHOLD == 50
COLD_THRESHOLD == 20

ConfidenceLevel == {"high", "medium", "low"}

(* ---- ScoringInput: the field constraints and the two validators ---- *)

validate_rating(v) == v = NoneVal \/ (v >= 0 /\ v <= RATING_MAX)

\* google_review_count: Optional[int] = Field(None, ge=0)
ReviewCountField(v) == v = NoneVal \/ v >= 0

\* vet_count_confidence: Optional[ConfidenceLevel]
ConfidenceField(c) == c = "None" \/ c \in ConfidenceLevel

\* ScoringInput(...) in fetch_scoring_input accepts the page's values
ScoringInputAccepts(p) ==
    /\ validate_rating(p.google_rating)
    /\ ReviewCountField(p.google_review_count)
    /\ validate_vet_count(p.vet_count_total)
    /\ ConfidenceField(p.vet_count_confidence)

\* the object the constructor returns: the values as given, nothing adjusted
ScoringInput(p) == [p EXCEPT !.kind = "ScoringInput"]

(* ---- LeadScorer ---- *)

\* bool(x) of an Optional[str]
Truthy(s) == s \notin {"None", ""}

validate_input_rating(r) == r = NoneVal \/ ~(r < 0 \/ r > RATING_MAX)

\* LeadScorer._validate_input (the practice id is the caller's, never empty)
ValidateInput(inp) ==
    /\ validate_input(inp.vet_count_total)
    /\ validate_input_rating(inp.google_rating)

VetCountBase_nine(v) ==
    IF SWEET_SPOT_MIN <= v /\ v <= SWEET_SPOT_MAX + 1 THEN SWEET_SPOT_BASE_SCORE
    ELSE IF v = 2 \/ v = 9 THEN NEAR_SWEET_SPOT_SCORE
    ELSE SOLO_OR_CORPORATE_SCORE

\* base score by vet count
VetCountBase(v) ==
    IF SWEET_SPOT_MIN <= v /\ v <= SWEET_SPOT_MAX THEN SWEET_SPOT_BASE_SCORE
    ELSE IF v = 2 \/ v = 9 THEN NEAR_SWEET_SPOT_SCORE
    ELSE SOLO_OR_CORPORATE_SCORE

score_practice_size(inp) ==
    LET score == IF inp.vet_count_total = NoneVal THEN 0
                 ELSE VetCountBase(inp.vet_count_total)
                        + (IF inp.emergency_24_7 THEN EMERGENCY_BONUS ELSE 0)
    IN Min(score, MAX_PRACTICE_SIZE)

\* points for review_count = google_review_count or 0
ReviewPoints(review_count) ==
    IF review_count >= REVIEW_HIGH_THRESHOLD THEN REVIEW_HIGH_SCORE
    ELSE IF review_count >= REVIEW_MEDIUM_THRESHOLD THEN REVIEW_MEDIUM_SCORE
    ELSE IF review_count >= REVIEW_LOW_THRESHOLD THEN REVIEW_LOW_SCORE
    ELSE 0

\* "board" in s.lower()
BoardingLabels == {"Boarding"}

ServicesBonus_per_label(services) == Len(services) * HIGH_VALUE_SERVICES_BONUS

\* the high-value services block of _score_call_volume
ServicesBonus(services) ==
    IF Len(services) > 0
    THEN LET has_boarding == \E i \in 1..Len(services) : services[i] \in BoardingLabels
             has_specialty == Len(services) > 0
         IN IF has_boarding \/ has_specialty THEN HIGH_VALUE_SERVICES_BONUS ELSE 0
    ELSE 0

score_call_volume(inp) ==
    LET review_count == IF inp.google_review_count = NoneVal THEN 0
                        ELSE inp.google_review_count
    IN Min(ReviewPoints(review_count)
             + (IF inp.has_multiple_locations THEN MULTIPLE_LOCATIONS_BONUS ELSE 0)
             + ServicesBonus(inp.specialty_services),
           MAX_CALL_VOLUME)

PortalOrTelemedicine_both(portal, tele) ==
    (IF portal THEN PORTAL_OR_TELEMEDICINE_SCORE ELSE 0)
      + (IF tele THEN PORTAL_OR_TELEMEDICINE_SCORE ELSE 0)

\* if patient_portal: ... elif telemedicine_virtual_care: ...
PortalOrTelemedicine(portal, tele) ==
    IF portal THEN PORTAL_OR_TELEMEDICINE_SCORE
    ELSE IF tele THEN PORTAL_OR_TELEMEDICINE_SCORE
    ELSE 0

score_technology(inp) ==
    Min((IF inp.online_booking THEN ONLINE_BOOKING_SCORE ELSE 0)
          + PortalOrTelemedicine(inp.patient_portal, inp.telemedicine_virtual_care),
        MAX_TECHNOLOGY)

RatingPoints_strict(rating) ==
    IF rating = NoneVal THEN 0
    ELSE IF rating > RATING_HIGH_THRESHOLD THEN RATING_HIGH_SCORE
    ELSE IF rating > RATING_MEDIUM_THRESHOLD THEN RATING_MEDIUM_SCORE
    ELSE IF rating > RATING_LOW_THRESHOLD THEN RATING_LOW_SCORE
    ELSE 0

\* rating score of _score_baseline
RatingPoints(rating) ==
    IF rating = NoneVal THEN 0
    ELSE IF rating >= RATING_HIGH_THRESHOLD THEN RATING_HIGH_SCORE
    ELSE IF rating >= RATING_MEDIUM_THRESHOLD THEN RATING_MEDIUM_SCORE
    ELSE IF rating >= RATING_LOW_THRESHOLD THEN RATING_LOW_SCORE
    ELSE 0

score_baseline(inp) ==
    Min(RatingPoints(inp.google_rating)
          + (IF Truthy(inp.website) THEN WEBSITE_SCORE ELSE 0)
          + (IF inp.has_multiple_locations THEN BASELINE_MULTIPLE_LOCATIONS_SCORE ELSE 0),
        MAX_BASELINE)

score_decision_maker(inp) ==
    LET has_name == Truthy(inp.decision_maker_name)
        has_email == Truthy(inp.decision_maker_email)
    IN IF has_name /\ has_email THEN DECISION_MAKER_FULL_SCORE
       ELSE IF has_name THEN DECISION_MAKER_PARTIAL_SCORE
       ELSE 0

(* ---- the confidence multiplier: Python float arithmetic ---- *)

RECURSIVE Repeat(_, _)
Repeat(s, k) == IF k <= 0 THEN <<>> ELSE s \o Repeat(s, k - 1)

\* The binary64 values of the literals 1.0, 0.9 and 0.7: the 53 significand
\* bits, least significant first, and the power of two that scales them
\* (0.7 is 0x16666666666666 / 2^53, 0.9 is 0x1CCCCCCCCCCCCD / 2^53).
DOUBLE_1_0 == [bits |-> Repeat(<<0>>, 52) \o <<1>>, scale |-> 52]
DOUBLE_0_9 == [bits |-> <<1, 0, 1, 1>> \o Repeat(<<0, 0, 1, 1>>, 12) \o <<1>>,
               scale |-> 53]
DOUBLE_0_7 == [bits |-> Repeat(<<0, 1, 1, 0>>, 13) \o <<1>>, scale |-> 53]

CONFIDENCE_MULTIPLIERS_after_write(level) ==
    IF scoring_fields # NoRecord THEN DOUBLE_0_7
    ELSE CASE level = "high" -> DOUBLE_1_0
           [] level = "medium" -> DOUBLE_0_9
           [] level = "low" -> DOUBLE_0_7
           [] OTHER -> DOUBLE_1_0

\* the class constant CONFIDENCE_MULTIPLIERS, looked up with .get(level, 1.0)
CONFIDENCE_MULTIPLIERS(level) ==
    CASE level = "high" -> DOUBLE_1_0
      [] level = "medium" -> DOUBLE_0_9
      [] level = "low" -> DOUBLE_0_7
      [] OTHER -> DOUBLE_1_0

\* how Python prints the multiplier
MultiplierLabel(level) ==
    CASE level = "high" -> "1.0"
      [] level = "medium" -> "0.9"
      [] level = "low" -> "0.7"
      [] OTHER -> "1.0"

\* the bits of b * k, least significant first
RECURSIVE MulBits(_, _, _, _)
MulBits(b, k, i, carry) ==
    IF i > Len(b)
    THEN IF carry = 0 THEN <<>>
         ELSE <<carry % 2>> \o MulBits(b, k, i, carry \div 2)
    ELSE LET v == b[i] * k + carry IN <<v % 2>> \o MulBits(b, k, i + 1, v \div 2)

RECURSIVE IncBits(_, _)
IncBits(b, i) ==
    IF i > Len(b) THEN Append(b, 1)
    ELSE IF b[i] = 0 THEN [b EXCEPT ![i] = 1]
    ELSE IncBits([b EXCEPT ![i] = 0], i + 1)

\* round an exact product to 53 significant bits, ties to even
RoundBits(p) ==
    IF Len(p) <= 53 THEN p
    ELSE LET d == Len(p) - 53
             kept == SubSeq(p, d + 1, Len(p))
             up == /\ p[d] = 1
                   /\ \/ kept[1] = 1
                      \/ \E i \in 1..(d - 1) : p[i] = 1
         IN Repeat(<<0>>, d) \o (IF up THEN IncBits(kept, 1) ELSE kept)

RECURSIVE BitsToInt(_, _)
BitsToInt(b, i) == IF i > Len(b) THEN 0 ELSE b[i] + 2 * BitsToInt(b, i + 1)

\* int(total * multiplier): the float product, then truncation
IntOfProduct(total, m) ==
    IF total = 0 THEN 0
    ELSE BitsToInt(RoundBits(MulBits(m.bits, total, 1, 0)), m.scale + 1)

ClampFinal_none(x) == x

\* min(total_after_confidence, 120)
ClampFinal(x) == Min(x, LEAD_SCORE_MAX)

(* ---- PracticeClassifier ---- *)

classify_practice_size(vet_count) ==
    IF vet_count = NoneVal THEN "None"
    ELSE IF vet_count <= SOLO_MAX THEN "Solo"
    ELSE IF vet_count <= SMALL_MAX THEN "Small"
    ELSE IF SWEET_SPOT_MIN <= vet_count /\ vet_count <= SWEET_SPOT_MAX THEN "Sweet Spot"
    ELSE IF LARGE_MIN <= vet_count /\ vet_count <= LARGE_MAX THEN "Large"
    ELSE "Corporate"

TierByScore_gt(lead_score) ==
    IF lead_score > HOT_THRESHOLD THEN "Hot"
    ELSE IF lead_score > WARM_THRESHOLD THEN "Warm"
    ELSE IF lead_score > COLD_THRESHOLD THEN "Cold"
    ELSE "Out of Scope"

\* the score bands of classify_priority_tier
TierByScore(lead_score) ==
    IF lead_score >= HOT_THRESHOLD THEN "Hot"
    ELSE IF lead_score >= WARM_THRESHOLD THEN "Warm"
    ELSE IF lead_score >= COLD_THRESHOLD THEN "Cold"
    ELSE "Out of Scope"

classify_priority_tier(lead_score, enrichment_status) ==
    IF Truthy(enrichment_status) /\ enrichment_status \notin {"Completed", "Partial"}
    THEN "Pending Enrichment"
    ELSE TierByScore(lead_score)

(* ---- LeadScorer.calculate_score ---- *)

\* the Field constraints of ScoreComponent, ScoreBreakdown and ScoringResult
BreakdownAccepts(b) ==
    /\ \A c \in {b.practice_size, b.call_volume, b.technology, b.baseline,
                 b.decision_maker} : c >= 0
    /\ b.total_before_confidence >= 0
    /\ b.total_before_confidence <= TOTAL_BEFORE_MAX
    /\ b.total_after_confidence >= 0
    /\ b.total_after_confidence <= LEAD_SCORE_MAX

\* LeadScorer._build_confidence_flags: the warnings, in the order appended
build_confidence_flags(inp, confidence_level) ==
    (IF confidence_level = "low" THEN <<"Low confidence enrichment data">>
     ELSE IF confidence_level = "medium" THEN <<"Medium confidence enrichment data">>
     ELSE <<>>)
    \o (IF inp.vet_count_total = NoneVal THEN <<"Missing vet count">> ELSE <<>>)
    \o (IF ~Truthy(inp.decision_maker_name) THEN <<"No decision maker identified">>
        ELSE <<>>)
    \o (IF inp.google_rating \in {NoneVal, 0} THEN <<"Missing Google rating">>
        ELSE <<>>)

calculate_score(inp) ==
    IF ~ValidateInput(inp) THEN [kind |-> "ScoringValidationError"]
    ELSE
    LET practice_size_comp == score_practice_size(inp)
        call_volume_comp == score_call_volume(inp)
        technology_comp == score_technology(inp)
        baseline_comp == score_baseline(inp)
        decision_maker_comp == score_decision_maker(inp)
        total_before_confidence ==
            practice_size_comp + call_volume_comp + technology_comp
              + baseline_comp + decision_maker_comp
        confidence_level == IF inp.vet_count_confidence = "None" THEN "high"
                            ELSE inp.vet_count_confidence
        confidence_multiplier == CONFIDENCE_MULTIPLIERS(confidence_level)
        total_after_confidence ==
            ClampFinal(IntOfProduct(total_before_confidence, confidence_multiplier))
        confidence_flags == build_confidence_flags(inp, confidence_level)
        breakdown ==
            [practice_size |-> practice_size_comp,
             call_volume |-> call_volume_comp,
             technology |-> technology_comp,
             baseline |-> baseline_comp,
             decision_maker |-> decision_maker_comp,
             total_before_confidence |-> total_before_confidence,
             confidence_multiplier |-> MultiplierLabel(confidence_level),
             total_after_confidence |-> total_after_confidence,
             confidence_level |-> confidence_level,
             confidence_flags |-> confidence_flags]
    IN IF ~BreakdownAccepts(breakdown) THEN [kind |-> "ScoringValidationError"]
       ELSE [kind |-> "ScoringResult",
             lead_score |-> total_after_confidence,
             priority_tier |->
                 classify_priority_tier(total_after_confidence, inp.enrichment_status),
             practice_size_category |-> classify_practice_size(inp.vet_count_total),
             score_breakdown |-> breakdown,
             confidence_flags |-> confidence_flags,
             scoring_status |-> "Scored"]

to_notion_update_with_status(r) ==
    [kind |-> "properties",
     lead_score |-> r.lead_score,
     priority_tier |-> r.priority_tier,
     score_breakdown |-> r.score_breakdown,
     confidence_flags |-> r.confidence_flags,
     scoring_status |-> r.scoring_status,
     enrichment_status |-> r.scoring_status]

\* ScoringResult.to_notion_update
to_notion_update(r) ==
    [kind |-> "properties",
     lead_score |-> r.lead_score,
     priority_tier |-> r.priority_tier,
     score_breakdown |-> r.score_breakdown,
     confidence_flags |-> r.confidence_flags,
     scoring_status |-> r.scoring_status]

\* client.pages.update(page_id, properties): the ledger replaces the
\* properties named in the request and keeps every other property of the page
pages_update(rec, properties) ==
    [k \in DOMAIN rec |->
        IF k \in DOMAIN properties \ {"kind"} THEN properties[k] ELSE rec[k]]

(* ---- the score calculation of one practice, step by step ---- *)

ServiceLabels == {"Boarding", "Surgery"}

ServiceLists == UNION {[1..k -> ServiceLabels] : k \in 0..MaxServices}

VetCountValues == {NoneVal, -2} \cup 0..(VET_COUNT_MAX + 1)

RatingValues == {NoneVal, -10} \cup 0..(RATING_MAX + 1)

ReviewCountValues == {NoneVal, -2, 0, 19, 20, 49, 50, 99, 100, 101}

ConfidenceValues == {"None"} \cup ConfidenceLevel

EnrichmentStatuses == {"None", "Completed", "Partial", "Failed"}

\* a page with no field filled in, enrichment completed: the one value each
\* field takes unless a sample set varies it
BlankFields ==
    [google_rating |-> {NoneVal},
     google_review_count |-> {NoneVal},
     website |-> {"None"},
     has_multiple_locations |-> {FALSE},
     vet_count_total |-> {NoneVal},
     vet_count_confidence |-> {"None"},
     emergency_24_7 |-> {FALSE},
     online_booking |-> {FALSE},
     patient_portal |-> {FALSE},
     telemedicine_virtual_care |-> {FALSE},
     specialty_services |-> {<<>>},
     decision_maker_name |-> {"None"},
     decision_maker_email |-> {"None"},
     enrichment_status |-> {"Completed"}]

\* pages whose fields take their values in the sets f gives
Pages(f) ==
    [kind : {"page"},
     google_rating : f.google_rating,
     google_review_count : f.google_review_count,
     website : f.website,
     has_multiple_locations : f.has_multiple_locations,
     vet_count_total : f.vet_count_total,
     vet_count_confidence : f.vet_count_confidence,
     emergency_24_7 : f.emergency_24_7,
     online_booking : f.online_booking,
     patient_portal : f.patient_portal,
     telemedicine_virtual_care : f.telemedicine_virtual_care,
     specialty_services : f.specialty_services,
     decision_maker_name : f.decision_maker_name,
     decision_maker_email : f.decision_maker_email,
     enrichment_status : f.enrichment_status]

\* every vet count, with every confidence level and enrichment status
SizePages ==
    Pages([BlankFields EXCEPT !.vet_count_total = VetCountValues,
                              !.vet_count_confidence = ConfidenceValues,
                              !.emergency_24_7 = BOOLEAN,
                              !.enrichment_status = EnrichmentStatuses])

\* every review count band, with every list of services
VolumePages ==
    Pages([BlankFields EXCEPT !.google_review_count = ReviewCountValues,
                              !.has_multiple_locations = BOOLEAN,
                              !.specialty_services = ServiceLists])

\* every combination of technology flags and of decision-maker fields
TechnologyPages ==
    Pages([BlankFields EXCEPT !.online_booking = BOOLEAN,
                              !.patient_portal = BOOLEAN,
                              !.telemedicine_virtual_care = BOOLEAN,
                              !.decision_maker_name = {"None", "", "Dr. Smith"},
                              !.decision_maker_email = {"None", "dr@example.com"}])

\* every rating in tenths, with and without reviews
BaselinePages ==
    Pages([BlankFields EXCEPT !.google_rating = RatingValues,
                              !.google_review_count = {NoneVal, 100},
                              !.website = {"None", "", "https://example.com"},
                              !.has_multiple_locations = BOOLEAN])

\* practices with data for several components at once
MixedPages ==
    Pages([google_rating |-> {NoneVal, 45},
           google_review_count |-> {NoneVal, 100},
           website |-> {"None", "https://example.com"},
           has_multiple_locations |-> BOOLEAN,
           vet_count_total |-> {NoneVal, 5},
           vet_count_confidence |-> {"None", "medium", "low"},
           emergency_24_7 |-> {TRUE},
           online_booking |-> BOOLEAN,
           patient_portal |-> BOOLEAN,
           telemedicine_virtual_care |-> {FALSE},
           specialty_services |-> {<<>>, <<"Surgery">>},
           decision_maker_name |-> {"None", "Dr. Smith"},
           decision_maker_email |-> {"None", "dr@example.com"},
           enrichment_status |-> {"None", "Completed", "Failed"}])

SamplePages == SizePages \cup VolumePages \cup TechnologyPages \cup BaselinePages
                 \cup MixedPages

InitScore ==
    /\ InitCommon
    /\ mode = "score"
    /\ n = 0
    /\ continue_on_error = TRUE
    /\ enrichment_results = <<>>
    /\ page \in SamplePages
    /\ score_pc = "fetched"
    /\ scoring_input = NoRecord
    /\ scoring_result = NoRecord
    /\ scoring_fields = NoRecord

\* fetch_scoring_input builds the ScoringInput from the two reads, or the
\* constructor raises a validation error
ConstructInput ==
    /\ mode = "score"
    /\ score_pc = "fetched"
    /\ IF ScoringInputAccepts(page)
       THEN /\ scoring_input' = ScoringInput(page)
            /\ score_pc' = "constructed"
            /\ UNCHANGED scoring_result
       ELSE /\ scoring_result' = [kind |-> "ValidationError"]
            /\ score_pc' = "rejected"
            /\ UNCHANGED scoring_input
    /\ UNCHANGED <<now, circuit_breaker, thr, trace, OrchVars, EnrichVars, page,
                   scoring_fields>>

\* scoring_result = calculate_score(scoring_input), or it raises
CalculateScore ==
    /\ mode = "score"
    /\ score_pc = "constructed"
    /\ scoring_result' = calculate_score(scoring_input)
    /\ score_pc' = IF scoring_result'.kind = "ScoringResult" THEN "calculated"
                   ELSE "rejected"
    /\ UNCHANGED <<now, circuit_breaker, thr, trace, OrchVars, EnrichVars, page,
                   scoring_input, scoring_fields>>

\* update_scoring_fields writes scoring_result.to_notion_update() to the page
UpdateScoringFields ==
    /\ mode = "score"
    /\ score_pc = "calculated"
    /\ LET properties == to_notion_update(scoring_result) IN
         /\ scoring_fields' = properties
         /\ page' = pages_update(page, properties)
    /\ score_pc' = "written"
    /\ UNCHANGED <<now, circuit_breaker, thr, trace, OrchVars, EnrichVars,
                   scoring_input, scoring_result>>

\* pages.update raises: the request was not applied to the page
UpdateScoringFieldsFails ==
    /\ mode = "score"
    /\ score_pc = "calculated"
    /\ score_pc' = "write_failed"
    /\ UNCHANGED <<now, circuit_breaker, thr, trace, OrchVars, EnrichVars, page,
                   scoring_input, scoring_result, scoring_fields>>

\* the same ScoringInput is handed to calculate_score a second time
CalculateAgain ==
    /\ mode = "score"
    /\ score_pc = "written"
    /\ scoring_result' = calculate_score(scoring_input)
    /\ score_pc' = "rescored"
    /\ UNCHANGED <<now, circuit_breaker, thr, trace, OrchVars, EnrichVars, page,
                   scoring_input, scoring_fields>>

NextScore ==
    \/ ConstructInput
    \/ CalculateScore
    \/ UpdateScoringFields
    \/ UpdateScoringFieldsFails
    \/ CalculateAgain

SpecScore == InitScore /\ [][NextScore]_vars

(* ======================================================================= *)
(* Properties of the score calculation                                     *)
(* ======================================================================= *)

Absent(v) == v = NoneVal

\* the page holds a vet count outside 0..50 or a rating outside 0.0..5.0
OutOfRange(p) ==
    \/ ~Absent(p.vet_count_total) /\ (p.vet_count_total < 0 \/ p.vet_count_total > 50)
    \/ ~Absent(p.google_rating) /\ (p.google_rating < 0 \/ p.google_rating > 50)

Scored == scoring_result.kind = "ScoringResult"

\* C12: a page whose vet count is outside 0..50 or whose rating is outside
\* 0..5 is rejected with a validation error: no ScoringInput is built from it,
\* no component score and no result is produced, and nothing is written; an
\* input that is built carries the page's vet count and rating unchanged.
C12_OutOfRangeRejected ==
    /\ (OutOfRange(page) /\ score_pc # "fetched") =>
          /\ score_pc = "rejected"
          /\ scoring_result = [kind |-> "ValidationError"]
          /\ scoring_input = NoRecord
          /\ scoring_fields = NoRecord
    /\ scoring_input # NoRecord =>
          /\ scoring_input.vet_count_total = page.vet_count_total
          /\ scoring_input.google_rating = page.google_rating
    /\ (Scored \/ scoring_fields # NoRecord) => ~OutOfRange(page)

C12_Witness ==
    /\ page.vet_count_total = VET_COUNT_MAX + 1
    /\ score_pc = "rejected"
    /\ scoring_result.kind = "ValidationError"

MeritTiers == {"Hot", "Warm", "Cold", "Out of Scope"}

\* C13 (as claimed): a result carries a merit tier only if the enrichment
\* status is Completed or Partial; with any other status, an absent one
\* included, the tier is Pending Enrichment.
C13_UnenrichedNeverRanked ==
    Scored =>
        IF scoring_input.enrichment_status \in {"Completed", "Partial"}
        THEN scoring_result.priority_tier \in MeritTiers
        ELSE scoring_result.priority_tier = "Pending Enrichment"

\* the tier the two-step decision gives
ExpectedTier(score, status) ==
    IF status # "None" /\ status \notin {"Completed", "Partial"}
    THEN "Pending Enrichment"
    ELSE IF score >= 80 THEN "Hot"
    ELSE IF score >= 50 THEN "Warm"
    ELSE IF score >= 20 THEN "Cold"
    ELSE "Out of Scope"

ComponentSum(b) ==
    b.practice_size + b.call_volume + b.technology + b.baseline + b.decision_maker

\* tenths of the multiplier of a confidence level
MultiplierTenths(confidence) ==
    IF confidence = "medium" THEN 9 ELSE IF confidence = "low" THEN 7 ELSE 10

\* C15 (as claimed): the final lead score is min(120, integer part of S x m)
\* computed exactly, S being the sum of the five unpenalised component
\* scores of the breakdown and m the multiplier of the confidence level
\* (1.0 for high or absent, 0.9 for medium, 0.7 for low).
C15_ExactPenalty ==
    Scored =>
        LET b == scoring_result.score_breakdown
            S == ComponentSum(b)
        IN /\ b.practice_size = score_practice_size(scoring_input)
           /\ b.call_volume = score_call_volume(scoring_input)
           /\ b.technology = score_technology(scoring_input)
           /\ b.baseline = score_baseline(scoring_input)
           /\ b.decision_maker = score_decision_maker(scoring_input)
           /\ b.total_before_confidence = S
           /\ scoring_result.lead_score
                = Min(120, (S * MultiplierTenths(scoring_input.vet_count_confidence))
                             \div 10)

\* C16: the practice-size score is 0 without a vet count; otherwise 25 for
\* 3..8 vets, 15 for 2 or 9, 5 for any other count in 0..50, plus 15 when
\* the 24/7 emergency flag is set, capped at 40.
C16_PracticeSize ==
    Scored =>
        LET v == scoring_input.vet_count_total
            base == IF v \in 3..8 THEN 25 ELSE IF v \in {2, 9} THEN 15 ELSE 5
            bonus == IF scoring_input.emergency_24_7 THEN 15 ELSE 0
        IN scoring_result.score_breakdown.practice_size
             = (IF Absent(v) THEN 0 ELSE Min(40, base + bonus))

C16_Witness ==
    /\ Scored
    /\ scoring_input.vet_count_total = 9
    /\ scoring_input.emergency_24_7
    /\ scoring_result.score_breakdown.practice_size = 30

\* C17: the call-volume score is min(40, r + l + s): r is 20 from 100
\* reviews, 12 for 50..99, 5 for 20..49 and 0 below 20 or without a count,
\* l is 10 with the multi-location flag, s is 10 for a non-empty list of
\* specialty services however many labels it holds.
C17_CallVolume ==
    Scored =>
        LET c == scoring_input.google_review_count
            r == IF Absent(c) \/ c < 20 THEN 0
                 ELSE IF c < 50 THEN 5 ELSE IF c < 100 THEN 12 ELSE 20
            l == IF scoring_input.has_multiple_locations THEN 10 ELSE 0
            s == IF scoring_input.specialty_services # <<>> THEN 10 ELSE 0
        IN scoring_result.score_breakdown.call_volume = Min(40, r + l + s)

C17_Witness ==
    /\ Scored
    /\ Len(scoring_input.specialty_services) = 2
    /\ scoring_input.google_review_count = 99
    /\ scoring_result.score_breakdown.call_volume = 22

\* C18: the technology score is 10 for online booking plus 5 when patient
\* portal or telemedicine (or both) is flagged: one of 0, 5, 10, 15.
C18_Technology ==
    Scored =>
        LET t == scoring_result.score_breakdown.technology IN
        /\ t = (IF scoring_input.online_booking THEN 10 ELSE 0)
                + (IF scoring_input.patient_portal
                      \/ scoring_input.telemedicine_virtual_care THEN 5 ELSE 0)
        /\ t \in {0, 5, 10, 15}

C18_Witness ==
    /\ Scored
    /\ scoring_input.patient_portal
    /\ scoring_input.telemedicine_virtual_care
    /\ scoring_input.online_booking
    /\ scoring_result.score_breakdown.technology = 15

C20_DeclaredBounds ==
    /\ score_pc = "rejected" => ~ScoringInputAccepts(page)
    /\ Scored =>
          LET b == scoring_result.score_breakdown IN
          /\ b.practice_size \in 0..40
          /\ b.call_volume \in 0..40
          /\ b.technology \in 0..20
          /\ b.baseline \in 0..20
          /\ b.decision_maker \in 0..10
          /\ b.total_before_confidence = ComponentSum(b)
          /\ b.total_before_confidence \in 0..130
          /\ b.confidence_multiplier \in {"1.0", "0.9", "0.7"}
          /\ b.total_after_confidence \in 0..120
          /\ scoring_result.lead_score \in 0..120

C20_Witness ==
    /\ Scored
    /\ scoring_result.score_breakdown.total_before_confidence > 120
    /\ scoring_result.lead_score = 120

(* ======================================================================= *)
(* Batch summary, ledger status, partial update, rescoring                 *)
(* ======================================================================= *)

\* total = len(practice_ids), assigned before the loop and never again
total == n

\* the dictionary score_batch_async returns
summary ==
    [total |-> total, succeeded |-> succeeded, failed |-> failed,
     timeout |-> timeout_count,
     circuit_breaker_blocked |-> circuit_breaker_blocked,
     results |-> results, errors |-> errors]

\* C21: after every batch run, also one cut short by breaker-open or by
\* continue_on_error being false, the total of the summary is the number of
\* entities whose single-entity flow was started, and so equals
\* succeeded + failed.
C21_TotalIsAttempted ==
    batch_done =>
        /\ summary.total = Len(attempts)
        /\ summary.total = summary.succeeded + summary.failed

\* what the ledger may show as the Scoring Status of a practice before a run
PriorScoringStatus == {"None", "Scored"}

\* The Scoring Status select of practice i's page.  update_scoring_fields is
\* its only writer and writes result.scoring_status, which no code sets to
\* anything but the default "Scored"; the except clauses of
\* score_practice_async write nothing.
LedgerScoringStatus(i, prior) ==
    IF "written" \in trace[i] THEN "Scored" ELSE prior

\* C22: after a single-entity run ends in a timeout the ledger shows the
\* entity's scoring status as Failed, whatever it showed before the run.
C22_TimeoutRecordedAsFailed ==
    \A i \in Slots : \A prior \in PriorScoringStatus :
        outcome[i] = "timeout" => LedgerScoringStatus(i, prior) = "Failed"

\* the properties a scoring write may set
ScoringFieldNames ==
    {"lead_score", "priority_tier", "score_breakdown", "confidence_flags",
     "scoring_status"}

\* C23: a scoring write changes only the scoring fields (lead score, priority
\* tier, score breakdown, confidence flags, scoring status): the request names
\* exactly these, every other field of the page is the same after the write
\* as before it, and a write that fails changes nothing at all.
C23_OnlyScoringFields ==
    [][/\ page' = page
       /\ score_pc' = "written" =>
             DOMAIN scoring_fields' \ {"kind"} = ScoringFieldNames
       /\ score_pc' = "write_failed" => scoring_fields' = scoring_fields
      ]_vars

C23_Witness ==
    /\ score_pc = "written"
    /\ page.enrichment_status = "Completed"
    /\ scoring_fields.scoring_status = "Scored"
    /\ scoring_fields.confidence_flags # <<>>

RetriedAttemptFails(t) ==
    /\ Moved(t)
    /\ thr[t].pc = "record_failure"
    /\ thr[t].attempt < STOP_AFTER_ATTEMPT

\* C25: a retried ledger operation makes at most 3 attempts and the breaker
\* counts it only once the retries are exhausted: an attempt that fails and
\* will be retried leaves the failure counter as it was, so an operation that
\* fails in the end adds one failure and one that succeeds on a retry adds
\* none.
C25_CountedOnceExhausted ==
    [][\A t \in Slots :
        /\ thr[t].attempt <= STOP_AFTER_ATTEMPT
        /\ RetriedAttemptFails(t) => circuit_breaker' = circuit_breaker
      ]_vars

\* C26: during a batch at most one entity has a ledger operation under way:
\* no operation of the next entity starts while an operation started for an
\* earlier entity is still running on its worker thread, also after a
\* timeout.
C26_OneEntityInFlight ==
    \A i \in Slots : \A j \in Slots :
        (Running(i) /\ Running(j)) => i = j

(* ======================================================================= *)
(* The breaker methods run by two worker threads, statement by statement   *)
(* ======================================================================= *)

\* The abandoned worker of a timed-out practice and the worker of the next
\* practice use the same client.  No lock guards the three breaker
\* attributes, so the statements of the methods interleave, and the
\* augmented assignment is a read followed by a write.
MaxRaceCalls == 2

RaceThreads == {1, 2}

BreakerMethods == {"_record_failure", "_record_success", "_check_circuit_breaker"}

FirstStatement(method) ==
    CASE method = "_record_failure" -> "rf_load"
      [] method = "_record_success" -> "rs_failures"
      [] method = "_check_circuit_breaker" -> "ck_open"

RaceIdle == [op |-> "none", pc |-> "done", reg |-> 0, calls |-> 0, exc |-> "none"]

\* breaker states a sequential caller can leave behind
RacePriorBreakers ==
    {[ClosedBreaker EXCEPT !.failures = f] :
        f \in {0, CIRCUIT_BREAKER_THRESHOLD - 2, CIRCUIT_BREAKER_THRESHOLD - 1}}
    \cup {[failures |-> CIRCUIT_BREAKER_THRESHOLD, open |-> TRUE, opened_at |-> 0]}

InitRace ==
    /\ mode = "race"
    /\ now \in {1, CIRCUIT_BREAKER_COOLDOWN}
    /\ circuit_breaker \in RacePriorBreakers
    /\ thr = [t \in RaceThreads |-> RaceIdle]
    /\ idx = 0
    /\ flow = "none"
    /\ start_time = 0
    /\ outcome = [t \in Slots |-> "pending"]
    /\ succeeded = 0
    /\ failed = 0
    /\ timeout_count = 0
    /\ circuit_breaker_blocked = 0
    /\ results = <<>>
    /\ errors = <<>>
    /\ batch_done = FALSE
    /\ attempts = <<>>
    /\ trace = [t \in Slots |-> {}]
    /\ trigger_return = [t \in Slots |-> "pending"]
    /\ n = 0
    /\ continue_on_error = TRUE
    /\ enrichment_results = <<>>
    /\ trig_pos = 0
    /\ callback_calls = <<>>
    /\ callback_raised = {}
    /\ ScoreIdle

RaceFrame == UNCHANGED <<now, trace, OrchVars, EnrichVars, ScoreVars>>

Goto(t, pc) == thr' = [thr EXCEPT ![t].pc = pc]

\* a worker enters one of the breaker methods
RaceCall(t) ==
    /\ thr[t].pc = "done"
    /\ thr[t].calls < MaxRaceCalls
    /\ \E method \in BreakerMethods :
          thr' = [thr EXCEPT ![t] = [op |-> method, pc |-> FirstStatement(method),
                                     reg |-> 0, calls |-> thr[t].calls + 1,
                                     exc |-> "none"]]
    /\ UNCHANGED circuit_breaker
    /\ RaceFrame

\* self.circuit_breaker_failures += 1: the read
FailureLoad(t) ==
    /\ thr[t].pc = "rf_load"
    /\ thr' = [thr EXCEPT ![t].reg = circuit_breaker.failures, ![t].pc = "rf_store"]
    /\ UNCHANGED circuit_breaker
    /\ RaceFrame

\* self.circuit_breaker_failures += 1: the write
FailureStore(t) ==
    /\ thr[t].pc = "rf_store"
    /\ circuit_breaker' = [circuit_breaker EXCEPT !.failures = thr[t].reg + 1]
    /\ Goto(t, "rf_test")
    /\ RaceFrame

\* if self.circuit_breaker_failures >= self.CIRCUIT_BREAKER_THRESHOLD
FailureTest(t) ==
    /\ thr[t].pc = "rf_test"
    /\ Goto(t, IF ThresholdReached(circuit_breaker.failures) THEN "rf_open" ELSE "done")
    /\ UNCHANGED circuit_breaker
    /\ RaceFrame

\* self.circuit_breaker_open = True
FailureOpen(t) ==
    /\ thr[t].pc = "rf_open"
    /\ circuit_breaker' = [circuit_breaker EXCEPT !.open = TRUE]
    /\ Goto(t, "rf_stamp")
    /\ RaceFrame

\* self.circuit_breaker_opened_at = time.time()
FailureStamp(t) ==
    /\ thr[t].pc = "rf_stamp"
    /\ circuit_breaker' = [circuit_breaker EXCEPT !.opened_at = now]
    /\ Goto(t, "done")
    /\ RaceFrame

\* _record_success: self.circuit_breaker_failures = 0
SuccessFailures(t) ==
    /\ thr[t].pc = "rs_failures"
    /\ circuit_breaker' = [circuit_breaker EXCEPT !.failures = 0]
    /\ Goto(t, "rs_open")
    /\ RaceFrame

\* _record_success: self.circuit_breaker_open = False
SuccessOpen(t) ==
    /\ thr[t].pc = "rs_open"
    /\ circuit_breaker' = [circuit_breaker EXCEPT !.open = FALSE]
    /\ Goto(t, "rs_stamp")
    /\ RaceFrame

\* _record_success: self.circuit_breaker_opened_at = None
SuccessStamp(t) ==
    /\ thr[t].pc = "rs_stamp"
    /\ circuit_breaker' = [circuit_breaker EXCEPT !.opened_at = NoneVal]
    /\ Goto(t, "done")
    /\ RaceFrame

\* _check_circuit_breaker: if not self.circuit_breaker_open: return
CheckOpen(t) ==
    /\ thr[t].pc = "ck_open"
    /\ Goto(t, IF circuit_breaker.open THEN "ck_elapsed" ELSE "done")
    /\ UNCHANGED circuit_breaker
    /\ RaceFrame

\* the cooldown test; CircuitBreakerError unless the cooldown has elapsed
CheckElapsed(t) ==
    /\ thr[t].pc = "ck_elapsed"
    /\ IF /\ circuit_breaker.opened_at # NoneVal
          /\ CooldownElapsed(now - circuit_breaker.opened_at)
       THEN Goto(t, "ck_reset_open")
       ELSE thr' = [thr EXCEPT ![t].pc = "done", ![t].exc = "CircuitBreakerError"]
    /\ UNCHANGED circuit_breaker
    /\ RaceFrame

\* cooldown elapsed: self.circuit_breaker_open = False
CheckResetOpen(t) ==
    /\ thr[t].pc = "ck_reset_open"
    /\ circuit_breaker' = [circuit_breaker EXCEPT !.open = FALSE]
    /\ Goto(t, "ck_reset_failures")
    /\ RaceFrame

\* cooldown elapsed: self.circuit_breaker_failures = 0
CheckResetFailures(t) ==
    /\ thr[t].pc = "ck_reset_failures"
    /\ circuit_breaker' = [circuit_breaker EXCEPT !.failures = 0]
    /\ Goto(t, "ck_reset_stamp")
    /\ RaceFrame

\* cooldown elapsed: self.circuit_breaker_opened_at = None
CheckResetStamp(t) ==
    /\ thr[t].pc = "ck_reset_stamp"
    /\ circuit_breaker' = [circuit_breaker EXCEPT !.opened_at = NoneVal]
    /\ Goto(t, "done")
    /\ RaceFrame

NextRace ==
    \E t \in RaceThreads :
        \/ RaceCall(t)
        \/ FailureLoad(t)
        \/ FailureStore(t)
        \/ FailureTest(t)
        \/ FailureOpen(t)
        \/ FailureStamp(t)
        \/ SuccessFailures(t)
        \/ SuccessOpen(t)
        \/ SuccessStamp(t)
        \/ CheckOpen(t)
        \/ CheckElapsed(t)
        \/ CheckResetOpen(t)
        \/ CheckResetFailures(t)
        \/ CheckResetStamp(t)

SpecRace == InitRace /\ [][NextRace]_vars

\* no breaker method is in progress on any thread
Quiescent == \A t \in RaceThreads : thr[t].pc = "done"

\* the three attributes agree, as they do after any method run on its own
Consistent(cb) ==
    /\ cb.open <=> cb.opened_at # NoneVal
    /\ cb.open <=> cb.failures >= CIRCUIT_BREAKER_THRESHOLD

\* C27: every read-modify-write of the breaker state is atomic with respect
\* to the others, also when the abandoned worker of a timed-out entity and
\* the worker of the next entity use the breaker at the same time: no
\* increment is lost (each recorded failure raises the counter by one from
\* the value it has then) and no reset or open transition is overwritten
\* (once no method is in progress the open flag, the open timestamp and the
\* counter agree).
C27_AtomicReadModifyWrite ==
    [][/\ \A t \in RaceThreads :
            (thr[t].pc = "rf_store" /\ thr'[t].pc = "rf_test")
               => circuit_breaker'.failures = circuit_breaker.failures + 1
       /\ Quiescent' => Consistent(circuit_breaker')
      ]_vars

(* ======================================================================= *)
(* Batch summary counters                                                  *)
(* ======================================================================= *)

ErrorTypes == {"timeout", "circuit_breaker", "general"}

\* how many entries of the error list carry this cause tag
Tagged(tag) == Cardinality({k \in 1..Len(errors) : errors[k].error_type = tag})

\* C28: in every batch summary the counters agree with the lists: failed is
\* the number of timeouts plus the number of breaker-blocked entities plus
\* the number of other failures, the results list has one entry per success
\* and the error list one entry per failure, every error carries exactly one
\* of the three cause tags, and succeeded + failed never exceeds the length
\* of the input list.
C28_SummaryCounters ==
    /\ summary.failed = summary.timeout + summary.circuit_breaker_blocked + Tagged("general")
    /\ summary.timeout = Tagged("timeout")
    /\ summary.circuit_breaker_blocked = Tagged("circuit_breaker")
    /\ Len(summary.results) = summary.succeeded
    /\ Len(summary.errors) = summary.failed
    /\ \A k \in 1..Len(errors) : errors[k].error_type \in ErrorTypes
    /\ summary.succeeded + summary.failed <= Len(attempts)
    /\ Len(attempts) <= n

C28_Witness ==
    /\ batch_done
    /\ summary.total = 2
    /\ summary.timeout = 1
    /\ summary.circuit_breaker_blocked = 1
    /\ summary.failed = 2

RejectionStep(t) == Moved(t) /\ thr'[t].exc = "CircuitBreakerError"

\* C30: a call rejected by the open breaker leaves the breaker as it was: the
\* rejection is not counted as a failure and does not restart the cooldown,
\* also when the breaker opened during the reads or retries of the same
\* fetch_scoring_input call.
C30_RejectionLeavesBreaker ==
    [][\A t \in Slots : RejectionStep(t) => circuit_breaker' = circuit_breaker]_vars

====
